---- MODULE Spec2Model ----
(***************************************************************************)
(* profilecreds: AssumeRoleProfileProvider.Retrieve and the FileCache it   *)
(* stores its credentials in.                                              *)
(*                                                                         *)
(* Optional strings (Go pointers to string) are sequences: <<>> is nil and *)
(* <<s>> points to s.  Maps are total functions over Keys whose absent     *)
(* entries hold Absent.  A time.Time is [sec, loc, mono]: the instant, the *)
(* location, and whether a monotonic clock reading is attached.            *)
(*                                                                         *)
(* p, config, data, file and now are the provider, ~/.aws/config, the      *)
(* FileCache's map, its backing file and the clock.  last describes the    *)
(* Retrieve call that has just returned, issued the record of the last     *)
(* successful refresh, threads the callers of the concurrent               *)
(* specifications and obs what the cache specifications observe.           *)
(***************************************************************************)
EXTENDS Integers, Sequences, FiniteSets, TLC

VARIABLES p, config, data, file, now, last, issued, threads, obs

vars == <<p, config, data, file, now, last, issued, threads, obs>>

(* ---------------------------- bounds ----------------------------------- *)

MaxTime == 3

MaxLifetime == 1

(* ---------------------------- constants -------------------------------- *)

ProviderName == "AssumeRoleProfileProvider"

DefaultDuration == 900

CredentialsKey == "credentials"

Keys == {CredentialsKey, "other"}

Nil == <<>>

Some(s) == <<s>>

(* ---------------------------- input sets ------------------------------- *)

ProfileNames == {"prod", "staging"}

TokenCodes == {"123456", "654321"}

StsKeys ==
    { [AccessKeyId |-> "AK1", SecretAccessKey |-> "SK1", SessionToken |-> "ST1"],
      [AccessKeyId |-> "AK2", SecretAccessKey |-> "SK2", SessionToken |-> "ST2"] }

Lifetimes == 1..MaxLifetime

EarlyRefresh == 2

ConfigKeys == {"role_arn", "source_profile", "mfa_serial", "external_id", "role_session_name"}

KeyValues(k) ==
    CASE k = "role_arn" -> {"arn:role/X", "arn:role/Z"}
      [] k = "source_profile" -> {"dev", "ops"}
      [] k = "mfa_serial" -> {"", "arn:mfa/Y"}
      [] k = "external_id" -> {"", "123"}
      [] k = "role_session_name" -> {"", "sess"}

(* ---------------------------- time.Time -------------------------------- *)

ZeroTime == [sec |-> 0, loc |-> "UTC", mono |-> FALSE]

TimeNow(t) == [sec |-> t, loc |-> "Local", mono |-> TRUE]

UTC(t) == [sec |-> t.sec, loc |-> "UTC", mono |-> FALSE]

Before(t, u) == t.sec < u.sec

(* ---------------------------- values ----------------------------------- *)

ZeroValue == [AccessKeyID |-> "", SecretAccessKey |-> "", SessionToken |-> "", ProviderName |-> ""]

ErrorValue == [AccessKeyID |-> "", SecretAccessKey |-> "", SessionToken |-> "", ProviderName |-> ProviderName]

ZeroProfile ==
    [Name |-> "", RoleARN |-> "", SourceProfileName |-> "",
     RoleSessionName |-> Nil, MFASerial |-> Nil, ExternalID |-> Nil]

ZeroCreds == [Credentials |-> ZeroValue, Expiration |-> ZeroTime, Profile |-> ZeroProfile]

(* ---------------------------- encoding/json ---------------------------- *)

JNull == [t |-> "null", v |-> ""]

JString(s) == [t |-> "string", v |-> s]

JOptionalEmptyForNil(o) == IF o = Nil THEN JString("") ELSE JString(o[1])

JOptional(o) == IF o = Nil THEN JNull ELSE JString(o[1])

JTime(t) == [t |-> "string", v |-> [sec |-> t.sec, zone |-> IF t.loc = "UTC" THEN "Z" ELSE "+hh:mm"]]

Absent == [kind |-> "absent"]

Garbage == [kind |-> "garbage"]

(* A cache value that is plain text s, not JSON; Text("") is the zero      *)
(* string.                                                                 *)
Text(s) == [kind |-> "text", s |-> s]

Marshal(c) ==
    [kind |-> "json",
     Credentials |->
        [AccessKeyID |-> JString(c.Credentials.AccessKeyID),
         SecretAccessKey |-> JString(c.Credentials.SecretAccessKey),
         SessionToken |-> JString(c.Credentials.SessionToken),
         ProviderName |-> JString(c.Credentials.ProviderName)],
     Expiration |-> JTime(c.Expiration),
     Profile |->
        [Name |-> JString(c.Profile.Name),
         RoleARN |-> JString(c.Profile.RoleARN),
         SourceProfileName |-> JString(c.Profile.SourceProfileName),
         RoleSessionName |-> JOptional(c.Profile.RoleSessionName),
         MFASerial |-> JOptional(c.Profile.MFASerial),
         ExternalID |-> JOptional(c.Profile.ExternalID)]]

DecodeString(j) == IF j.t = "string" THEN j.v ELSE ""

DecodeOptionalOmitEmpty(j) == IF j.t = "string" /\ j.v # "" THEN Some(j.v) ELSE Nil

DecodeOptional(j) == IF j.t = "string" THEN Some(j.v) ELSE Nil

DecodeTime(j) ==
    IF j.t = "string"
    THEN [sec |-> j.v.sec, loc |-> IF j.v.zone = "Z" THEN "UTC" ELSE "Local", mono |-> FALSE]
    ELSE ZeroTime

Unmarshal(v) ==
    IF v.kind # "json" THEN ZeroCreds
    ELSE
    [Credentials |->
        [AccessKeyID |-> DecodeString(v.Credentials.AccessKeyID),
         SecretAccessKey |-> DecodeString(v.Credentials.SecretAccessKey),
         SessionToken |-> DecodeString(v.Credentials.SessionToken),
         ProviderName |-> DecodeString(v.Credentials.ProviderName)],
     Expiration |-> DecodeTime(v.Expiration),
     Profile |->
        [Name |-> DecodeString(v.Profile.Name),
         RoleARN |-> DecodeString(v.Profile.RoleARN),
         SourceProfileName |-> DecodeString(v.Profile.SourceProfileName),
         RoleSessionName |-> DecodeOptional(v.Profile.RoleSessionName),
         MFASerial |-> DecodeOptional(v.Profile.MFASerial),
         ExternalID |-> DecodeOptional(v.Profile.ExternalID)]]

(* ---------------------------- FileCache -------------------------------- *)

EmptyMap == [k \in Keys |-> Absent]

NilData == [loaded |-> FALSE, m |-> EmptyMap]

NoFile == [state |-> "missing", writable |-> TRUE, m |-> EmptyMap]

(* The file is one JSON object; a map entry is a JSON string member.       *)
EncodeEntry(x) == IF x = Absent THEN Absent ELSE [kind |-> "member", t |-> "string", v |-> x]

DecodeEntry(e) == IF e = Absent THEN Absent ELSE e.v

EncodeMap(m) == [k \in Keys |-> EncodeEntry(m[k])]

DecodeMap(j) == [k \in Keys |-> DecodeEntry(j[k])]

(* A file holding the JSON document null decodes to a nil map: the map     *)
(* made on line 68 is replaced by nil, so data is not loaded afterwards.   *)
readConf(f) ==
    IF f.state = "null" THEN NilData
    ELSE [loaded |-> TRUE, m |-> IF f.state = "ok" THEN DecodeMap(f.m) ELSE EmptyMap]

writeConfNoTruncate(d, f) ==
    IF f.writable
    THEN IF f.state = "ok" /\ f.m # EncodeMap(d.m)
         THEN [f EXCEPT !.state = "corrupt"]
         ELSE [f EXCEPT !.state = "ok", !.m = EncodeMap(d.m)]
    ELSE f

writeConf(d, f) ==
    IF f.writable THEN [f EXCEPT !.state = "ok", !.m = EncodeMap(d.m)] ELSE f

FileCacheGet(d, f, key) ==
    LET d1 == IF d.loaded THEN d ELSE readConf(f)
    IN  [data |-> d1,
         value |-> IF d1.m[key] = Absent THEN Text("") ELSE d1.m[key],
         found |-> d1.m[key] # Absent]

SetEntryKeepFirst(d, key, value) ==
    IF d.m[key] = Absent THEN [d EXCEPT !.m[key] = value] ELSE d

(* f.data[key] = value on a map that is not nil.                           *)
SetEntry(d, key, value) == [d EXCEPT !.m[key] = value]

(* The assignment on line 45 panics when the map is still nil after        *)
(* readConf; the files of Spec and SpecRoundTrip never hold null.          *)
FileCacheSet(d, f, key, value) ==
    LET d1 == IF d.loaded THEN d ELSE readConf(f)
        d2 == SetEntry(d1, key, value)
    IN  IF d1.loaded
        THEN [data |-> d2, file |-> writeConf(d2, f), panic |-> FALSE]
        ELSE [data |-> d1, file |-> f, panic |-> TRUE]

(* ---------------------------- the provider ----------------------------- *)

NoErr == "nil"

(* NewCredentials(profileName) with no option: the Duration default only.  *)
DefaultProvider ==
    [ProfileName |-> "prod", Duration |-> DefaultDuration, GetToken |-> "nil",
     ExpiryWindow |-> 0, Cache |-> "FileCache"]

(* The provider values a run constructs: the README's provider and the     *)
(* ones that differ from it in one field.                                  *)
Providers ==
    {[DefaultProvider EXCEPT !.ProfileName = n] : n \in ProfileNames}
    \cup {[DefaultProvider EXCEPT !.ExpiryWindow = EarlyRefresh]}
    \cup {[DefaultProvider EXCEPT !.Cache = "nil"]}

BaseConfig ==
    [readable |-> TRUE, section |-> "prod",
     keys |-> [k \in ConfigKeys |->
                 CASE k = "role_arn" -> Some("arn:role/X")
                   [] k = "source_profile" -> Some("dev")
                   [] OTHER -> Nil]]

(* The configurations the user switches between: the base one and those    *)
(* one edit away from it (a key set or removed, the section renamed, the   *)
(* file unreadable).                                                       *)
Configs ==
    {BaseConfig}
    \cup UNION {{[BaseConfig EXCEPT !.keys[k] = v] :
                    v \in {Nil} \cup {Some(x) : x \in KeyValues(k)}} : k \in ConfigKeys}
    \cup {[BaseConfig EXCEPT !.section = n] : n \in ProfileNames}
    \cup {[BaseConfig EXCEPT !.readable = FALSE]}

loadProfileOptionalSource(pv, cfg) ==
    IF ~cfg.readable THEN [err |-> "ini: cannot load config", prof |-> ZeroProfile]
    ELSE IF cfg.section # pv.ProfileName THEN [err |-> "ini: section does not exist", prof |-> ZeroProfile]
    ELSE IF cfg.keys["role_arn"] = Nil THEN [err |-> "ini: key role_arn does not exist", prof |-> ZeroProfile]
    ELSE [err |-> NoErr,
          prof |-> [Name |-> pv.ProfileName,
                    RoleARN |-> cfg.keys["role_arn"][1],
                    SourceProfileName |-> IF cfg.keys["source_profile"] = Nil THEN ""
                                          ELSE cfg.keys["source_profile"][1],
                    RoleSessionName |-> cfg.keys["role_session_name"],
                    MFASerial |-> cfg.keys["mfa_serial"],
                    ExternalID |-> cfg.keys["external_id"]]]

loadProfile(pv, cfg) ==
    IF ~cfg.readable THEN [err |-> "ini: cannot load config", prof |-> ZeroProfile]
    ELSE IF cfg.section # pv.ProfileName THEN [err |-> "ini: section does not exist", prof |-> ZeroProfile]
    ELSE IF cfg.keys["role_arn"] = Nil THEN [err |-> "ini: key role_arn does not exist", prof |-> ZeroProfile]
    ELSE IF cfg.keys["source_profile"] = Nil THEN [err |-> "ini: key source_profile does not exist", prof |-> ZeroProfile]
    ELSE [err |-> NoErr,
          prof |-> [Name |-> pv.ProfileName,
                    RoleARN |-> cfg.keys["role_arn"][1],
                    SourceProfileName |-> cfg.keys["source_profile"][1],
                    RoleSessionName |-> cfg.keys["role_session_name"],
                    MFASerial |-> cfg.keys["mfa_serial"],
                    ExternalID |-> cfg.keys["external_id"]]]

loadCachedCreds(d, f) ==
    LET g == FileCacheGet(d, f, CredentialsKey)
    IN  [data |-> g.data, found |-> g.found,
         cached |-> IF g.found THEN Unmarshal(g.value) ELSE ZeroCreds]

MatchIgnoringExternalID(c, prof) ==
    [c.Profile EXCEPT !.ExternalID = Nil] = [prof EXCEPT !.ExternalID = Nil]

MatchPointers(c, prof) ==
    /\ c.Profile = prof
    /\ prof.RoleSessionName = Nil /\ prof.MFASerial = Nil /\ prof.ExternalID = Nil

Match(c, prof) == c.Profile = prof

IsExpiredOrNow(c, t) == ~Before(UTC(TimeNow(t)), UTC(c.Expiration))

IsExpiredSwapped(c, t) == Before(UTC(TimeNow(t)), UTC(c.Expiration))

IsExpired(c, t) == Before(UTC(c.Expiration), UTC(TimeNow(t)))

(* retrieve, lines 185-188: the session name defaults to the clock reading.*)
SessionName(prof, t0) ==
    IF prof.RoleSessionName = Nil THEN Some(ToString(t0)) ELSE prof.RoleSessionName

(* retrieve, lines 189-192.                                                *)
DurationOrDefault(pv) == IF pv.Duration = 0 THEN DefaultDuration ELSE pv.Duration

AssumeRoleInputEmptyCode(pv, prof, t0, code) ==
    [DurationSeconds |-> DurationOrDefault(pv),
     RoleArn |-> Some(prof.RoleARN),
     RoleSessionName |-> SessionName(prof, t0),
     ExternalId |-> prof.ExternalID,
     SerialNumber |-> IF prof.MFASerial # Nil THEN prof.MFASerial ELSE Nil,
     TokenCode |-> IF prof.MFASerial # Nil THEN Some("") ELSE Nil]

AssumeRoleInputAlwaysCode(pv, prof, t0, code) ==
    [DurationSeconds |-> DurationOrDefault(pv),
     RoleArn |-> Some(prof.RoleARN),
     RoleSessionName |-> SessionName(prof, t0),
     ExternalId |-> prof.ExternalID,
     SerialNumber |-> prof.MFASerial,
     TokenCode |-> Some(code)]

(* retrieve, lines 197-211: the request, with the MFA fields when the      *)
(* profile has a device; code is what the Token Source returned.           *)
AssumeRoleInput(pv, prof, t0, code) ==
    [DurationSeconds |-> DurationOrDefault(pv),
     RoleArn |-> Some(prof.RoleARN),
     RoleSessionName |-> SessionName(prof, t0),
     ExternalId |-> prof.ExternalID,
     SerialNumber |-> IF prof.MFASerial # Nil THEN prof.MFASerial ELSE Nil,
     TokenCode |-> IF prof.MFASerial # Nil THEN Some(code) ELSE Nil]

(* retrieve: tok is what the Token Source returns, sts what AssumeRole     *)
(* returns, t0 the clock when the refresh starts and t1 the clock when the *)
(* Token Source or the exchange has answered.                              *)
retrieve(pv, prof, t0, tok, sts, t1) ==
    LET mfa == prof.MFASerial # Nil
        getToken == [op |-> "GetToken", err |-> tok.err, code |-> tok.code]
        assumeRole == [op |-> "AssumeRole", err |-> sts.err, key |-> sts.key, exp |-> sts.exp,
                       source |-> prof.SourceProfileName,
                       params |-> AssumeRoleInput(pv, prof, t0, tok.code)]
    IN  IF mfa /\ tok.err # NoErr
        THEN [Credentials |-> ErrorValue, Expiration |-> TimeNow(t1), err |-> tok.err,
              Duration |-> DurationOrDefault(pv), events |-> <<getToken>>]
        ELSE IF sts.err # NoErr
        THEN [Credentials |-> ErrorValue, Expiration |-> TimeNow(t1), err |-> sts.err,
              Duration |-> DurationOrDefault(pv),
              events |-> IF mfa THEN <<getToken, assumeRole>> ELSE <<assumeRole>>]
        ELSE [Credentials |-> [AccessKeyID |-> sts.key.AccessKeyId,
                               SecretAccessKey |-> sts.key.SecretAccessKey,
                               SessionToken |-> sts.key.SessionToken,
                               ProviderName |-> ProviderName],
              Expiration |-> UTC(sts.exp), err |-> NoErr,
              Duration |-> DurationOrDefault(pv),
              events |-> IF mfa THEN <<getToken, assumeRole>> ELSE <<assumeRole>>]

TokenResults ==
    {[err |-> NoErr, code |-> c] : c \in TokenCodes}
    \cup {[err |-> "speakeasy: EOF", code |-> ""]}

NoToken == [err |-> NoErr, code |-> ""]

(* What AssumeRole answers to a request made at time t.                    *)
StsResults(t) ==
    {[err |-> NoErr, key |-> k, exp |-> [sec |-> t + d, loc |-> "Local", mono |-> FALSE]] :
        k \in StsKeys, d \in Lifetimes}
    \cup {[err |-> "sts: AccessDenied", key |-> CHOOSE k \in StsKeys : TRUE, exp |-> ZeroTime]}

NoCall ==
    [path |-> "none", value |-> ZeroValue, err |-> NoErr, events |-> <<>>,
     prof |-> ZeroProfile, found |-> FALSE, cached |-> ZeroCreds, tcheck |-> 0,
     prevPath |-> "none"]

Contents(d, f) ==
    LET g == FileCacheGet(d, f, CredentialsKey) IN <<g.value, g.found>>

(* Retrieve, lines 97-100: the profile does not load.                      *)
RetrieveLoadFails(lp) ==
    /\ last' = [NoCall EXCEPT !.path = "loadfail", !.value = ErrorValue,
                              !.err = lp.err, !.prevPath = last.path]
    /\ UNCHANGED <<p, config, data, file, now, issued, threads, obs>>

(* Retrieve, line 102 on a provider without a Cache: the method call on    *)
(* the nil interface panics.                                               *)
RetrievePanics(lp) ==
    /\ last' = [NoCall EXCEPT !.path = "panic", !.prof = lp.prof, !.prevPath = last.path]
    /\ UNCHANGED <<p, config, data, file, now, issued, threads, obs>>

(* Retrieve, lines 102-105: the cached record is returned.                 *)
RetrieveHit(lp, lc) ==
    /\ data' = lc.data
    /\ last' = [NoCall EXCEPT !.path = "hit", !.value = lc.cached.Credentials,
                              !.events = <<[op |-> "Cache.Get"]>>,
                              !.prof = lp.prof, !.found = lc.found, !.cached = lc.cached,
                              !.tcheck = now, !.prevPath = last.path]
    /\ UNCHANGED <<p, config, file, now, issued, threads, obs>>

(* Retrieve, lines 106-121: the live refresh.                              *)
RetrieveRefresh(lp, lc, tok, sts, t1) ==
    LET r == retrieve(p, lp.prof, now, tok, sts, t1)
        cachedCreds == [Credentials |-> r.Credentials, Expiration |-> r.Expiration,
                        Profile |-> lp.prof]
        cachedJSON == Marshal(cachedCreds)
        st == FileCacheSet(lc.data, file, CredentialsKey, cachedJSON)
    IN  /\ p' = [p EXCEPT !.GetToken = IF @ = "nil" THEN "PromptTokenSource" ELSE @,
                          !.Duration = r.Duration]
        /\ data' = st.data
        /\ file' = st.file
        /\ issued' = IF r.err = NoErr THEN Some([creds |-> cachedCreds, at |-> t1]) ELSE Nil
        /\ last' = [NoCall EXCEPT !.path = "refresh", !.value = cachedCreds.Credentials,
                                  !.err = NoErr,
                                  !.events = <<[op |-> "Cache.Get"]>> \o r.events
                                             \o <<[op |-> "Cache.Set", value |-> cachedJSON]>>,
                                  !.prof = lp.prof, !.found = lc.found, !.cached = lc.cached,
                                  !.tcheck = now, !.prevPath = last.path]
        /\ now' = t1
        /\ UNCHANGED <<config, threads, obs>>

Retrieve ==
    LET lp == loadProfile(p, config)
        lc == loadCachedCreds(data, file)
    IN  IF lp.err # NoErr THEN RetrieveLoadFails(lp)
        ELSE IF p.Cache = "nil" THEN RetrievePanics(lp)
        ELSE IF Match(lc.cached, lp.prof) /\ ~IsExpired(lc.cached, now)
             THEN RetrieveHit(lp, lc)
             ELSE \E tok \in IF lp.prof.MFASerial = Nil THEN {NoToken} ELSE TokenResults :
                  \E t1 \in {t \in {now, now + 1} : t <= MaxTime} :
                  \E sts \in StsResults(t1) :
                      RetrieveRefresh(lp, lc, tok, sts, t1)

(* ---------------------------- the environment -------------------------- *)

(* The clock advances between calls.                                       *)
Tick ==
    /\ now < MaxTime
    /\ now' = now + 1
    /\ last' = NoCall
    /\ UNCHANGED <<p, config, data, file, issued, threads, obs>>

(* The user edits ~/.aws/config.                                           *)
EditConfig ==
    /\ \E c \in Configs \ {config} : config' = c
    /\ issued' = Nil
    /\ last' = NoCall
    /\ UNCHANGED <<p, data, file, now, threads, obs>>

(* A new run of the program: a new provider with a new FileCache on the    *)
(* same file.                                                              *)
NewRun ==
    /\ \E q \in Providers : p' = q
    /\ data' = NilData
    /\ issued' = IF issued # Nil /\ readConf(file).m[CredentialsKey] = Marshal(issued[1].creds)
                 THEN issued ELSE Nil
    /\ last' = NoCall
    /\ UNCHANGED <<config, file, now, threads, obs>>

NoThreads == <<>>

NoObs == [op |-> "none"]

(* A value that is valid JSON but not the JSON of a record: the session    *)
(* token is a number.  The other fields are those of a record for the base *)
(* profile that has not expired.                                           *)
MistypedValue ==
    [Marshal([Credentials |-> [AccessKeyID |-> "AK0", SecretAccessKey |-> "SK0",
                               SessionToken |-> "", ProviderName |-> ProviderName],
              Expiration |-> [sec |-> MaxTime + 1, loc |-> "UTC", mono |-> FALSE],
              Profile |-> loadProfile(DefaultProvider, BaseConfig).prof])
     EXCEPT !.Credentials.SessionToken = [t |-> "number", v |-> "5"]]

(* The backing file before the first run: missing, missing in a directory  *)
(* that cannot be written, not JSON, or a JSON object whose "credentials"  *)
(* member is not the JSON of a record.                                     *)
InitialFiles ==
    {NoFile,
     [NoFile EXCEPT !.writable = FALSE],
     [NoFile EXCEPT !.state = "corrupt"],
     [NoFile EXCEPT !.state = "ok", !.m[CredentialsKey] = EncodeEntry(Garbage)],
     [NoFile EXCEPT !.state = "ok", !.m[CredentialsKey] = EncodeEntry(MistypedValue)]}

Init ==
    /\ p \in Providers
    /\ config = BaseConfig
    /\ data = NilData
    /\ file \in InitialFiles
    /\ now = 1
    /\ last = NoCall
    /\ issued = Nil
    /\ threads = NoThreads
    /\ obs = NoObs

Next == Retrieve \/ Tick \/ EditConfig \/ NewRun

Spec == Init /\ [][Next]_vars

(* ---------------------------- observations ----------------------------- *)

(* The most recent step was a Retrieve that got as far as the cache.       *)
ReachedCache == last.path \in {"hit", "refresh"}

Events(l, op) == {i \in DOMAIN l.events : l.events[i].op = op}

TokenFailed(l) == \E i \in Events(l, "GetToken") : l.events[i].err # NoErr

ExchangeFailed(l) == \E i \in Events(l, "AssumeRole") : l.events[i].err # NoErr

ProfileFields ==
    {"Name", "RoleARN", "SourceProfileName", "RoleSessionName", "MFASerial", "ExternalID"}

(* The fields in which the cached record's profile and the loaded profile  *)
(* differ.                                                                 *)
Differing(l) == {f \in ProfileFields : l.cached.Profile[f] # l.prof[f]}

(* ---------------------------- claims ----------------------------------- *)

(* C1: when the role-assumption exchange of a live refresh returns an      *)
(* error, Retrieve returns that error to its caller, whether or not an     *)
(* expired record was cached.                                              *)
C1_ExchangeErrorReturned ==
    \A i \in Events(last, "AssumeRole") :
        last.events[i].err # NoErr => last.err = last.events[i].err

(* C2: a cached record whose profile differs from the loaded profile in at *)
(* least one field is never returned as a cache hit; Retrieve refreshes.   *)
C2_DifferentProfileNeverHit ==
    (ReachedCache /\ Differing(last) # {}) =>
        /\ last.path = "refresh"
        /\ Events(last, "GetToken") \cup Events(last, "AssumeRole") # {}

(* C2 witness: an external id was added to a profile whose unexpired       *)
(* record is cached, and the call refreshed.                               *)
C2_Witness ==
    /\ last.path = "refresh"
    /\ Differing(last) = {"ExternalID"}
    /\ last.cached.Profile.ExternalID = Nil
    /\ last.prof.ExternalID # Nil
    /\ last.cached.Credentials.AccessKeyID # ""
    /\ last.cached.Expiration.sec > last.tcheck

(* C3: with no early-refresh window, a cached record whose expiration is   *)
(* strictly before the current time is never returned; Retrieve refreshes. *)
C3_ExpiredNeverReturned ==
    (ReachedCache /\ p.ExpiryWindow = 0 /\ last.cached.Expiration.sec < last.tcheck) =>
        last.path = "refresh"

(* C3 witness: a record issued for the unchanged profile has expired and   *)
(* the call refreshed.                                                     *)
C3_Witness ==
    /\ last.path = "refresh"
    /\ p.ExpiryWindow = 0
    /\ last.found
    /\ Differing(last) = {}
    /\ last.cached.Credentials.AccessKeyID # ""
    /\ last.cached.Expiration.sec < last.tcheck

(* C4: with an early-refresh window w > 0, a matching cached record is     *)
(* treated as expired as soon as expiration - w is strictly before the     *)
(* current time, even though the expiration is still in the future         *)
(* (stated for records that a successful exchange issued).                 *)
C4_EarlyRefreshWindowApplied ==
    (/\ ReachedCache
     /\ p.ExpiryWindow > 0
     /\ Differing(last) = {}
     /\ last.cached.Credentials.AccessKeyID # ""
     /\ last.cached.Expiration.sec - p.ExpiryWindow < last.tcheck) =>
        last.path = "refresh"

(* C5: the cache entry is written only after a successful exchange: a      *)
(* Retrieve whose profile load, Token Source or exchange fails leaves the  *)
(* cache contents as they were.                                            *)
C5_FailedCallLeavesCache ==
    [][(last'.path = "loadfail" \/ TokenFailed(last') \/ ExchangeFailed(last')) =>
          /\ Contents(data', file') = Contents(data, file)
          /\ file' = file
          /\ Events(last', "Cache.Set") = {}]_vars

(* C6: when the profile has an MFA device and the Token Source fails, no   *)
(* role-assumption request is issued and Retrieve returns the Token        *)
(* Source's error.                                                         *)
C6_TokenErrorReturned ==
    \A i \in Events(last, "GetToken") :
        last.events[i].err # NoErr =>
            /\ Events(last, "AssumeRole") = {}
            /\ last.err = last.events[i].err

(* C7: a live refresh for a profile with an MFA device invokes the Token   *)
(* Source exactly once, before the request, and the request carries the    *)
(* device identifier and exactly the code the Token Source returned.       *)
C7_TokenOnceAndVerbatim ==
    (last.path = "refresh" /\ last.prof.MFASerial # Nil) =>
        /\ Cardinality(Events(last, "GetToken")) = 1
        /\ \A i \in Events(last, "AssumeRole") :
              \E j \in Events(last, "GetToken") :
                 /\ j < i
                 /\ last.events[j].err = NoErr
                 /\ last.events[i].params.SerialNumber = last.prof.MFASerial
                 /\ last.events[i].params.TokenCode = Some(last.events[j].code)

(* C7 witness: a refresh with MFA issued its request with the second code. *)
C7_Witness ==
    /\ last.path = "refresh"
    /\ last.prof.MFASerial = Some("arn:mfa/Y")
    /\ \E i \in Events(last, "AssumeRole") :
          last.events[i].params.TokenCode = Some("654321")

(* C8: for a profile without an MFA device no Retrieve invokes the Token   *)
(* Source and the request carries neither device identifier nor code; from *)
(* an empty cache exactly one request is issued and its result is stored.  *)
C8_NoMFANoToken ==
    (last.path # "none" /\ last.prof.MFASerial = Nil) =>
        /\ Events(last, "GetToken") = {}
        /\ \A i \in Events(last, "AssumeRole") :
              /\ last.events[i].params.SerialNumber = Nil
              /\ last.events[i].params.TokenCode = Nil
        /\ (ReachedCache /\ ~last.found) =>
              /\ last.path = "refresh"
              /\ Cardinality(Events(last, "AssumeRole")) = 1
              /\ \A i \in Events(last, "AssumeRole") :
                    last.events[i].err = NoErr =>
                       /\ data.loaded
                       /\ data.m[CredentialsKey] # Absent
                       /\ LET stored == Unmarshal(data.m[CredentialsKey])
                              key == last.events[i].key
                          IN  /\ stored.Profile = last.prof
                              /\ stored.Credentials.AccessKeyID = key.AccessKeyId
                              /\ stored.Credentials.SecretAccessKey = key.SecretAccessKey
                              /\ stored.Credentials.SessionToken = key.SessionToken
                              /\ stored.Expiration.sec = last.events[i].exp.sec
                              /\ last.value = stored.Credentials

(* C8 witness: a profile without MFA, an empty cache, one successful       *)
(* request whose result is in the cache.                                   *)
C8_Witness ==
    /\ last.path = "refresh"
    /\ last.prof.MFASerial = Nil
    /\ ~last.found
    /\ \E i \in Events(last, "AssumeRole") : last.events[i].err = NoErr
    /\ data.m[CredentialsKey] # Absent

(* C9: with a cached record for the current profile that is not expired,   *)
(* Retrieve returns exactly that record's credentials, and a second call   *)
(* in immediate succession returns the same credentials, issues no         *)
(* request, does not invoke the Token Source and does not write the cache. *)
C9_HitIsIdempotent ==
    /\ [](  (ReachedCache /\ Differing(last) = {} /\ last.cached.Expiration.sec > last.tcheck) =>
              /\ last.path = "hit"
              /\ last.value = last.cached.Credentials
              /\ last.events = <<[op |-> "Cache.Get"]>>  )
    /\ [][(/\ last.path = "hit"
            /\ last.cached.Expiration.sec > last.tcheck
            /\ last'.path # "none") =>
              /\ last'.path = "hit"
              /\ last'.value = last.value
              /\ last'.events = <<[op |-> "Cache.Get"]>>
              /\ data' = data
              /\ file' = file]_vars

(* C9 witness: the second of two hits in immediate succession on an        *)
(* unexpired record of a profile with an MFA device.                       *)
C9_Witness ==
    /\ last.path = "hit"
    /\ last.prevPath = "hit"
    /\ last.prof.MFASerial # Nil
    /\ last.cached.Credentials.AccessKeyID # ""
    /\ last.cached.Expiration.sec > last.tcheck

C11_LoadFailureReturnedFirst ==
    (/\ last.path # "none"
     /\ \/ ~config.readable
        \/ config.section # p.ProfileName
        \/ config.keys["role_arn"] = Nil
        \/ config.keys["source_profile"] = Nil) =>
        /\ last.path = "loadfail"
        /\ last.err # NoErr
        /\ last.value = [AccessKeyID |-> "", SecretAccessKey |-> "", SessionToken |-> "",
                         ProviderName |-> "AssumeRoleProfileProvider"]
        /\ last.events = <<>>

(* C11 witness: source_profile is missing and the call failed on the load. *)
C11_Witness ==
    /\ last.path = "loadfail"
    /\ config.readable
    /\ config.section = p.ProfileName
    /\ config.keys["role_arn"] # Nil
    /\ config.keys["source_profile"] = Nil

(* C12: a provider constructed without a Cache option uses a file-backed   *)
(* cache: its Retrieve completes, returning credentials or an error,       *)
(* rather than crashing on the missing cache.                              *)
C12_DefaultCacheNoCrash ==
    (last.path # "none" /\ p.Cache = "nil") => last.path \in {"loadfail", "hit", "refresh"}

(* C19: a cached record whose expiration equals the current time is not    *)
(* usable: Retrieve refreshes (stated for providers without an             *)
(* early-refresh window and records that a successful exchange issued).    *)
C19_ExpirationNowIsExpired ==
    (/\ ReachedCache
     /\ p.ExpiryWindow = 0
     /\ Differing(last) = {}
     /\ last.cached.Credentials.AccessKeyID # ""
     /\ last.cached.Expiration.sec = last.tcheck) =>
        last.path = "refresh"

(* C19 amended: without an early-refresh window, a matching record whose   *)
(* expiration equals the current time is still returned as a cache hit;    *)
(* only an expiration strictly before the current time makes it expired.   *)
C19_ExpirationNowIsHit ==
    (/\ ReachedCache
     /\ p.ExpiryWindow = 0
     /\ Differing(last) = {}
     /\ last.cached.Expiration.sec = last.tcheck) =>
        /\ last.path = "hit"
        /\ last.value = last.cached.Credentials

(* C19 witness: a record of a successful exchange is returned at the very  *)
(* instant of its expiration.                                              *)
C19_Witness ==
    /\ last.path = "hit"
    /\ p.ExpiryWindow = 0
    /\ last.cached.Credentials.AccessKeyID # ""
    /\ last.cached.Expiration.sec = last.tcheck

(* C20: the Retrieve that follows a failed live refresh never returns, as  *)
(* a cache hit, credentials produced by the failed attempt: it refreshes,  *)
(* or it hits a record stored by a successful exchange.                    *)
C20_FailedRefreshNeverHit ==
    [][(/\ last.path = "refresh"
        /\ TokenFailed(last) \/ ExchangeFailed(last)
        /\ last'.path # "none") =>
          \/ last'.path = "refresh"
          \/ /\ last'.path = "hit"
             /\ last'.value.AccessKeyID # ""]_vars

(* What a Get of the "credentials" key finds is unusable: the file is      *)
(* missing or not JSON, or the value is not the JSON of a record.          *)
BadCache(d, f) ==
    IF d.loaded
    THEN d.m[CredentialsKey] \in {Garbage, MistypedValue}
    ELSE \/ f.state \in {"missing", "corrupt"}
         \/ DecodeEntry(f.m[CredentialsKey]) \in {Garbage, MistypedValue}

(* C13: a missing, unreadable or corrupt backing file, or a malformed      *)
(* value under "credentials", never makes Retrieve fail: the cached record *)
(* is the zero-value record, it is not a cache hit, and Retrieve refreshes *)
(* as if the cache were empty.                                             *)
C13_BadCacheIsEmptyCache ==
    [][(/\ last'.path # "none"
        /\ p.Cache # "nil"
        /\ loadProfile(p, config).err = NoErr
        /\ BadCache(data, file)) =>
          /\ last'.path = "refresh"
          /\ last'.cached = ZeroCreds]_vars

(* ---------------------------- the record round trip -------------------- *)

OptionalStrings == {Nil, Some(""), Some("y")}

(* The records Retrieve can build at lines 111-115: any profile, the       *)
(* credentials of an exchange or of a failed one, and an expiration that   *)
(* is AssumeRole's (in UTC) or time.Now().                                 *)
BoundedRecords ==
    [Credentials : {ErrorValue,
                    [AccessKeyID |-> "AK1", SecretAccessKey |-> "SK1",
                     SessionToken |-> "ST1", ProviderName |-> ProviderName]},
     Expiration : {ZeroTime} \cup {UTC(TimeNow(t)) : t \in 1..MaxTime}
                             \cup {TimeNow(t) : t \in 1..MaxTime},
     Profile : [Name : {"", "prod"}, RoleARN : {"", "arn:role/X"},
                SourceProfileName : {"", "dev"},
                RoleSessionName : OptionalStrings, MFASerial : OptionalStrings,
                ExternalID : OptionalStrings]]

(* Retrieve, lines 117-119: the record is marshalled and set in the cache. *)
StoreRecord ==
    /\ obs.op = "record"
    /\ obs.stage = "built"
    /\ LET st == FileCacheSet(data, file, CredentialsKey, Marshal(obs.in))
       IN  /\ data' = st.data
           /\ file' = st.file
    /\ obs' = [obs EXCEPT !.stage = "stored"]
    /\ UNCHANGED <<p, config, now, last, issued, threads>>

(* loadCachedCreds, by the same FileCache or by a new one on the file.     *)
LoadRecord ==
    /\ obs.op = "record"
    /\ obs.stage = "stored"
    /\ \E d \in {data, NilData} :
          LET lc == loadCachedCreds(d, file)
          IN  /\ data' = lc.data
              /\ obs' = [obs EXCEPT !.stage = "loaded", !.out = lc.cached,
                                    !.fresh = ~d.loaded]
    /\ UNCHANGED <<p, config, file, now, last, issued, threads>>

InitRoundTrip ==
    /\ p = DefaultProvider
    /\ config = BaseConfig
    /\ data = NilData
    /\ file = NoFile
    /\ now = 1
    /\ last = NoCall
    /\ issued = Nil
    /\ threads = NoThreads
    /\ \E c \in BoundedRecords :
          obs = [op |-> "record", stage |-> "built", in |-> c, out |-> ZeroCreds, fresh |-> FALSE]

NextRoundTrip == StoreRecord \/ LoadRecord

SpecRoundTrip == InitRoundTrip /\ [][NextRoundTrip]_vars

OptionalFields == {"RoleSessionName", "MFASerial", "ExternalID"}

(* C18: marshalling a record as Retrieve does and unmarshalling it as      *)
(* loadCachedCreds does gives an equal record: the profile matches under   *)
(* Match, credentials and expiration (the instant) are equal, an absent    *)
(* optional field is still absent and a present one, the empty string      *)
(* included, is present with the same value.                               *)
C18_RoundTrip ==
    (obs.op = "record" /\ obs.stage = "loaded") =>
        /\ Match(obs.out, obs.in.Profile)
        /\ obs.out.Credentials = obs.in.Credentials
        /\ obs.out.Expiration.sec = obs.in.Expiration.sec
        /\ obs.in.Expiration.loc = "UTC" => obs.out.Expiration = obs.in.Expiration
        /\ \A f \in ProfileFields \ OptionalFields : obs.out.Profile[f] = obs.in.Profile[f]
        /\ \A f \in OptionalFields :
              /\ obs.in.Profile[f] = Nil <=> obs.out.Profile[f] = Nil
              /\ obs.in.Profile[f] # Nil => obs.out.Profile[f] = Some(obs.in.Profile[f][1])

(* C18 witness: a record with an absent, an empty and a set optional field *)
(* came back from a new FileCache on the file.                             *)
C18_Witness ==
    /\ obs.op = "record"
    /\ obs.stage = "loaded"
    /\ obs.fresh
    /\ obs.in.Profile.MFASerial = Nil
    /\ obs.in.Profile.ExternalID = Some("")
    /\ obs.in.Profile.RoleSessionName = Some("y")
    /\ obs.out.Profile = obs.in.Profile
    /\ obs.in.Credentials.AccessKeyID = "AK1"

(* ---------------------------- the FileCache, one caller ---------------- *)

CacheValues == {Text(""), Text("v1"), Text("v2")}

(* The map a backing file stands for.                                      *)
RefOfFile(f) ==
    IF f.state = "ok" THEN [k \in Keys |-> IF f.m[k] = Absent THEN Absent ELSE f.m[k].v]
    ELSE EmptyMap

NoReturn ==
    [call |-> "none", key |-> "", value |-> Text(""), found |-> FALSE, panicked |-> FALSE]

(* FileCache.Set(k, v); obs.ref is the map the calls so far stand for.     *)
SetCall ==
    /\ obs.op = "cache"
    /\ ~obs.ret.panicked
    /\ \E k \in Keys, v \in CacheValues :
          LET st == FileCacheSet(data, file, k, v)
          IN  /\ data' = st.data
              /\ file' = st.file
              /\ obs' = [obs EXCEPT !.ref[k] = IF st.panic THEN @ ELSE v,
                                    !.ret = [call |-> "Set", key |-> k, value |-> v,
                                             found |-> TRUE, panicked |-> st.panic]]
    /\ UNCHANGED <<p, config, now, last, issued, threads>>

(* FileCache.Get(k).                                                       *)
GetCall ==
    /\ obs.op = "cache"
    /\ ~obs.ret.panicked
    /\ \E k \in Keys :
          LET g == FileCacheGet(data, file, k)
          IN  /\ data' = g.data
              /\ obs' = [obs EXCEPT !.ret = [call |-> "Get", key |-> k, value |-> g.value,
                                             found |-> g.found, panicked |-> FALSE]]
    /\ UNCHANGED <<p, config, file, now, last, issued, threads>>

(* NewFileCache on the same filename, after the first instance was used    *)
(* or the process died in a panic. When the file cannot be written the new *)
(* instance starts from the file as it is.                                 *)
NewInstance ==
    /\ obs.op = "cache"
    /\ data.loaded \/ obs.ret.panicked
    /\ data' = NilData
    /\ obs' = [obs EXCEPT !.ref = IF file.writable THEN @ ELSE RefOfFile(file),
                          !.ret = NoReturn, !.reopened = TRUE]
    /\ UNCHANGED <<p, config, file, now, last, issued, threads>>

InitialCacheFiles ==
    {NoFile,
     [NoFile EXCEPT !.writable = FALSE],
     [NoFile EXCEPT !.state = "corrupt"],
     [NoFile EXCEPT !.state = "null"],
     [NoFile EXCEPT !.state = "ok", !.m["other"] = EncodeEntry(Text("v1"))],
     [NoFile EXCEPT !.state = "ok", !.writable = FALSE,
                    !.m[CredentialsKey] = EncodeEntry(Text("v2"))]}

InitCache ==
    /\ p = DefaultProvider
    /\ config = BaseConfig
    /\ data = NilData
    /\ file \in InitialCacheFiles
    /\ now = 1
    /\ last = NoCall
    /\ issued = Nil
    /\ threads = NoThreads
    /\ obs = [op |-> "cache", ref |-> RefOfFile(file), ret |-> NoReturn, reopened |-> FALSE]

NextCache == SetCall \/ GetCall \/ NewInstance

SpecCache == InitCache /\ [][NextCache]_vars

(* C14: for one caller at a time, Get(k) returns (v, true) for the most    *)
(* recent Set(k, v), ("", false) if k was never set and was not in the     *)
(* backing file at first access, and Set(k, v) changes the entry of k      *)
(* only.                                                                   *)
C14_GetReturnsLastSet ==
    /\ []((obs.op = "cache" /\ obs.ret.call = "Get") =>
            IF obs.ref[obs.ret.key] = Absent
            THEN obs.ret.value = Text("") /\ ~obs.ret.found
            ELSE obs.ret.value = obs.ref[obs.ret.key] /\ obs.ret.found)
    /\ [][(obs.op = "cache" /\ obs'.ret.call = "Set") =>
            /\ ~obs'.ret.panicked
            /\ data'.loaded
            /\ data'.m[obs'.ret.key] = obs'.ret.value
            /\ \A k \in Keys \ {obs'.ret.key} :
                  /\ FileCacheGet(data', file', k).value = FileCacheGet(data, file, k).value
                  /\ FileCacheGet(data', file', k).found = FileCacheGet(data, file, k).found]_vars

(* C15: when the backing file is writable, a Set that returns has replaced *)
(* the whole file with the complete map, so a new FileCache on the         *)
(* same filename returns for every key the value most recently set         *)
(* through the first instance.                                             *)
C15_SetPersistsWholeMap ==
    (obs.op = "cache" /\ file.writable) =>
        /\ (obs.ret.call = "Set" /\ ~obs.ret.panicked) =>
              /\ file.state = "ok"
              /\ RefOfFile(file) = data.m
              /\ RefOfFile(file) = obs.ref
        /\ (obs.reopened /\ obs.ret.call = "Get") =>
              /\ obs.ret.found = (obs.ref[obs.ret.key] # Absent)
              /\ obs.ret.found => obs.ret.value = obs.ref[obs.ret.key]

(* C15 witness: a new instance on a writable file returns a value that was *)
(* set through an earlier instance and is not the last one written.        *)
C15_Witness ==
    /\ obs.op = "cache"
    /\ file.writable
    /\ obs.reopened
    /\ obs.ret = [call |-> "Get", key |-> CredentialsKey, value |-> Text("v1"),
                  found |-> TRUE, panicked |-> FALSE]
    /\ data.m["other"] = Text("v2")

(* ---------------------------- the FileCache, two callers --------------- *)

NumCallers == 2

Callers == 1..NumCallers

(* The calls a caller can make, before its first step (line 40 or 53).     *)
CacheCalls ==
    [pc : {"check"}, call : {"Set"}, key : Keys, value : {Text("v1"), Text("v2")},
     found : {FALSE}]
    \cup [pc : {"check"}, call : {"Get"}, key : Keys, value : {Text("")}, found : {FALSE}]

InitialSharedFiles ==
    {NoFile,
     [NoFile EXCEPT !.writable = FALSE],
     [NoFile EXCEPT !.state = "ok", !.m["other"] = EncodeEntry(Text("v0"))]}

(* if f.data == nil, read without the mutex (lines 40 and 53).             *)
CheckNil(i) ==
    /\ obs.op = "shared"
    /\ threads[i].pc = "check"
    /\ threads' = [threads EXCEPT ![i].pc = IF data.loaded THEN "locked" ELSE "read"]
    /\ UNCHANGED <<p, config, data, file, now, last, issued, obs>>

(* f.readConf(): under the mutex, a new map filled from the file.          *)
ReadConf(i) ==
    /\ obs.op = "shared"
    /\ threads[i].pc = "read"
    /\ data' = readConf(file)
    /\ threads' = [threads EXCEPT ![i].pc = "locked"]
    /\ obs' = [obs EXCEPT !.inits = @ + 1]
    /\ UNCHANGED <<p, config, file, now, last, issued>>

(* Lock; f.data[key] = value; Unlock (lines 44-46).                        *)
LockedWrite(i) ==
    /\ obs.op = "shared"
    /\ threads[i].pc = "locked"
    /\ threads[i].call = "Set"
    /\ data.loaded
    /\ data' = SetEntry(data, threads[i].key, threads[i].value)
    /\ threads' = [threads EXCEPT ![i].pc = "save"]
    /\ UNCHANGED <<p, config, file, now, last, issued, obs>>

(* Lock; value, found := f.data[key]; Unlock; return (lines 57-61).        *)
LockedRead(i) ==
    /\ obs.op = "shared"
    /\ threads[i].pc = "locked"
    /\ threads[i].call = "Get"
    /\ LET g == FileCacheGet(data, file, threads[i].key)
       IN  threads' = [threads EXCEPT ![i].pc = "done", ![i].value = g.value,
                                      ![i].found = g.found]
    /\ UNCHANGED <<p, config, data, file, now, last, issued, obs>>

(* f.writeConf() and return (line 48).                                     *)
WriteConf(i) ==
    /\ obs.op = "shared"
    /\ threads[i].pc = "save"
    /\ file' = writeConf(data, file)
    /\ threads' = [threads EXCEPT ![i].pc = "done"]
    /\ UNCHANGED <<p, config, data, now, last, issued, obs>>

InitShared ==
    /\ p = DefaultProvider
    /\ config = BaseConfig
    /\ data = NilData
    /\ file \in InitialSharedFiles
    /\ now = 1
    /\ last = NoCall
    /\ issued = Nil
    /\ threads \in [Callers -> CacheCalls]
    /\ obs = [op |-> "shared", inits |-> 0]

NextShared ==
    \/ \E i \in Callers : CheckNil(i)
    \/ \E i \in Callers : ReadConf(i)
    \/ \E i \in Callers : LockedWrite(i)
    \/ \E i \in Callers : LockedRead(i)
    \/ \E i \in Callers : WriteConf(i)

SpecShared == InitShared /\ [][NextShared]_vars

AllReturned == \A i \in Callers : threads[i].pc = "done"

(* C16: a FileCache shared by concurrent callers decides on lazy           *)
(* initialisation under the mutex, so it fills the map from the backing    *)
(* file at most once, and loses no completed Set: once Set(k1, v1) and Set(k2, v2) with k1 # k2 on an      *)
(* instance not yet initialised have both returned, Get(k1) returns        *)
(* (v1, true) and Get(k2) returns (v2, true).                              *)
C16_NoCompletedSetLost ==
    obs.op = "shared" =>
        /\ obs.inits <= 1
        /\ (/\ AllReturned
            /\ \A i \in Callers : threads[i].call = "Set"
            /\ \A i, j \in Callers : i # j => threads[i].key # threads[j].key)
           => \A i \in Callers :
                 /\ FileCacheGet(data, file, threads[i].key).found
                 /\ FileCacheGet(data, file, threads[i].key).value = threads[i].value

(* ---------------------------- Retrieve, two callers -------------------- *)

(* A record of an earlier run for the base profile that has expired.       *)
ExpiredRecord ==
    Marshal([Credentials |-> [AccessKeyID |-> "AK0", SecretAccessKey |-> "SK0",
                              SessionToken |-> "ST0", ProviderName |-> ProviderName],
             Expiration |-> ZeroTime,
             Profile |-> loadProfile(DefaultProvider, BaseConfig).prof])

InitialStaleFiles ==
    {NoFile,
     [NoFile EXCEPT !.writable = FALSE],
     [NoFile EXCEPT !.state = "ok", !.m[CredentialsKey] = EncodeEntry(ExpiredRecord)],
     [NoFile EXCEPT !.state = "ok", !.writable = FALSE,
                    !.m[CredentialsKey] = EncodeEntry(ExpiredRecord)]}

SharedConfigs ==
    {BaseConfig,
     [BaseConfig EXCEPT !.keys["mfa_serial"] = Some("arn:mfa/Y")],
     [BaseConfig EXCEPT !.readable = FALSE]}

NotStarted ==
    [pc |-> "start", prof |-> ZeroProfile, rec |-> ZeroCreds, exch |-> ZeroValue,
     events |-> <<>>, ret |-> ZeroValue, err |-> NoErr, path |-> "none"]

(* Retrieve, lines 97-100, and the nil check of Cache.Get (line 53).       *)
BeginRetrieve(i) ==
    /\ obs.op = "retrieve"
    /\ threads[i].pc = "start"
    /\ LET lp == loadProfile(p, config)
       IN  threads' = [threads EXCEPT ![i] =
                IF lp.err # NoErr
                THEN [@ EXCEPT !.pc = "done", !.path = "loadfail", !.ret = ErrorValue,
                               !.err = lp.err]
                ELSE [@ EXCEPT !.pc = IF data.loaded THEN "get" ELSE "read",
                               !.prof = lp.prof]]
    /\ UNCHANGED <<p, config, data, file, now, last, issued, obs>>

(* Cache.Get: readConf.                                                    *)
CacheRead(i) ==
    /\ obs.op = "retrieve"
    /\ threads[i].pc = "read"
    /\ data' = readConf(file)
    /\ threads' = [threads EXCEPT ![i].pc = "get"]
    /\ UNCHANGED <<p, config, file, now, last, issued, obs>>

(* Cache.Get under the mutex, json.Unmarshal and the comparison on line    *)
(* 102: a hit returns, a miss goes on to the exchange.                     *)
CacheGet(i) ==
    /\ obs.op = "retrieve"
    /\ threads[i].pc = "get"
    /\ data.loaded
    /\ LET lc == loadCachedCreds(data, file)
       IN  threads' = [threads EXCEPT ![i] =
                IF Match(lc.cached, @.prof) /\ ~IsExpired(lc.cached, now)
                THEN [@ EXCEPT !.pc = "done", !.path = "hit", !.ret = lc.cached.Credentials]
                ELSE [@ EXCEPT !.pc = "exchange"]]
    /\ UNCHANGED <<p, config, data, file, now, last, issued, obs>>

(* Lines 106-115: the token source default, p.retrieve and the new record. *)
Exchange(i) ==
    /\ obs.op = "retrieve"
    /\ threads[i].pc = "exchange"
    /\ \E tok \in IF threads[i].prof.MFASerial = Nil THEN {NoToken} ELSE TokenResults :
       \E sts \in StsResults(now) :
          LET r == retrieve(p, threads[i].prof, now, tok, sts, now)
          IN  /\ threads' = [threads EXCEPT ![i].pc = "set",
                                 ![i].rec = [Credentials |-> r.Credentials,
                                             Expiration |-> r.Expiration,
                                             Profile |-> threads[i].prof],
                                 ![i].exch = r.Credentials,
                                 ![i].events = r.events]
              /\ p' = [p EXCEPT !.GetToken = IF @ = "nil" THEN "PromptTokenSource" ELSE @,
                                !.Duration = r.Duration]
    /\ UNCHANGED <<config, data, file, now, last, issued, obs>>

(* Lines 117-119, Cache.Set: the map is not nil after this caller's Get;   *)
(* the entry is stored under the mutex.                                    *)
CacheSet(i) ==
    /\ obs.op = "retrieve"
    /\ threads[i].pc = "set"
    /\ data.loaded
    /\ data' = SetEntry(data, CredentialsKey, Marshal(threads[i].rec))
    /\ threads' = [threads EXCEPT ![i].pc = "save"]
    /\ obs' = [obs EXCEPT !.lastSet = Marshal(threads[i].rec)]
    /\ UNCHANGED <<p, config, file, now, last, issued>>

(* Cache.Set: writeConf, and the return on line 121.                       *)
CacheSave(i) ==
    /\ obs.op = "retrieve"
    /\ threads[i].pc = "save"
    /\ file' = writeConf(data, file)
    /\ threads' = [threads EXCEPT ![i].pc = "done", ![i].path = "refresh",
                                  ![i].ret = threads[i].rec.Credentials]
    /\ UNCHANGED <<p, config, data, now, last, issued, obs>>

InitConcurrent ==
    /\ p = DefaultProvider
    /\ config \in SharedConfigs
    /\ data = NilData
    /\ file \in InitialStaleFiles
    /\ now = 1
    /\ last = NoCall
    /\ issued = Nil
    /\ threads = [i \in Callers |-> NotStarted]
    /\ obs = [op |-> "retrieve", lastSet |-> Absent]

NextConcurrent ==
    \/ \E i \in Callers : BeginRetrieve(i)
    \/ \E i \in Callers : CacheRead(i)
    \/ \E i \in Callers : CacheGet(i)
    \/ \E i \in Callers : Exchange(i)
    \/ \E i \in Callers : CacheSet(i)
    \/ \E i \in Callers : CacheSave(i)

SpecConcurrent == InitConcurrent /\ [][NextConcurrent]_vars

Refreshed(i) == threads[i].pc = "done" /\ threads[i].path = "refresh"

(* C17: of two callers in Retrieve at once on one provider, each that      *)
(* refreshed returns the credentials of its own exchange, and once both    *)
(* have finished the cache holds exactly the record of the Cache.Set that  *)
(* ran last.                                                               *)
C17_OwnCredentialsLastSetWins ==
    obs.op = "retrieve" =>
        /\ \A i \in Callers : Refreshed(i) => threads[i].ret = threads[i].exch
        /\ ((\A i \in Callers : threads[i].pc = "done") /\ obs.lastSet # Absent) =>
              /\ FileCacheGet(data, file, CredentialsKey).found
              /\ FileCacheGet(data, file, CredentialsKey).value = obs.lastSet
              /\ file.writable => RefOfFile(file)[CredentialsKey] = obs.lastSet

(* C17 witness: both callers refreshed with MFA, each with a token request *)
(* and a role assumption of its own, they return different credentials,    *)
(* and the cache holds the record of the second caller.                    *)
C17_Witness ==
    /\ obs.op = "retrieve"
    /\ \A i \in Callers :
          /\ Refreshed(i)
          /\ Len(threads[i].events) = 2
          /\ threads[i].events[1].op = "GetToken"
          /\ threads[i].events[2].op = "AssumeRole"
          /\ threads[i].ret = threads[i].exch
    /\ threads[1].ret.AccessKeyID = "AK1"
    /\ threads[2].ret.AccessKeyID = "AK2"
    /\ obs.lastSet = Marshal(threads[2].rec)
    /\ data.m[CredentialsKey] = obs.lastSet

====
